---- MODULE Spec2Model ----
(***************************************************************************)
(* DPP-Comply: the extraction-and-standardization pipeline                 *)
(* (backend/ai_processor.py), the compliance evaluator                     *)
(* (backend/services/data_validator.py), the pydantic record               *)
(* (backend/models.py) and the request handlers with their two file        *)
(* stores (backend/app.py).                                                *)
(*                                                                         *)
(* Text is a TLA+ string; Ch(s, i) is its i-th character.  A Python float  *)
(* is carried as an integer number of hundredths (2.4 is 240, 33.33 is     *)
(* 3333): every number the modelled inputs contain has at most two         *)
(* fraction digits, and round(x, 2) is the only rounding in the code.      *)
(* A Python value of unknown type (a JSON value, a dict entry) is a        *)
(* record with the same five fields whatever its type, see Value below.    *)
(***************************************************************************)
EXTENDS Integers, Sequences, FiniteSets, TLC

VARIABLES
    settings,         \* config.settings and whether the openai import succeeded
    raw_files,        \* RAW_DIR: file stem -> JSON document
    processed_files,  \* PROCESSED_DIR: file stem -> JSON document
    uuid_count,       \* how many uuid4() values have been drawn
    request,          \* the request (or function call) being served
    response,         \* its response (or return value)
    served            \* history: product id -> dpp of the last successful process_product

vars == <<settings, raw_files, processed_files, uuid_count, request, response, served>>

----------------------------------------------------------------------------
(* Characters and strings (Python str)                                     *)

Ch(s, i) == SubSeq(s, i, i)

LowerLetters == "abcdefghijklmnopqrstuvwxyz"
UpperLetters == "ABCDEFGHIJKLMNOPQRSTUVWXYZ"
DigitChars == "0123456789"

LowerSet == {Ch(LowerLetters, i) : i \in 1..26}
UpperSet == {Ch(UpperLetters, i) : i \in 1..26}
DigitSet == {Ch(DigitChars, i) : i \in 1..10}

ToLowerTable == [c \in UpperSet |-> Ch(LowerLetters, CHOOSE i \in 1..26 : Ch(UpperLetters, i) = c)]
ToUpperTable == [c \in LowerSet |-> Ch(UpperLetters, CHOOSE i \in 1..26 : Ch(LowerLetters, i) = c)]
DigitTable == [c \in DigitSet |-> (CHOOSE i \in 1..10 : Ch(DigitChars, i) = c) - 1]

\* The printable ASCII characters the model's texts use, in code-point order.
AsciiOrder == "\n !#$%&'()+,-./0123456789:;<=>?@ABCDEFGHIJKLMNOPQRSTUVWXYZ[]^_abcdefghijklmnopqrstuvwxyz{|}~"
AsciiSet == {Ch(AsciiOrder, i) : i \in 1..Len(AsciiOrder)}
OrdTable == [c \in AsciiSet |-> CHOOSE i \in 1..Len(AsciiOrder) : Ch(AsciiOrder, i) = c]

IsDigit(c) == c \in DigitSet
IsAlpha(c) == c \in LowerSet \/ c \in UpperSet
\* regex \s
SpaceSet == {" ", "\n", "\t", "\r", "\f"}
IsSpace(c) == c \in SpaceSet
\* regex \w, as \b reads it
IsWord(c) == IsAlpha(c) \/ IsDigit(c) \/ c = "_"

LowerCh(c) == IF c \in UpperSet THEN ToLowerTable[c] ELSE c
UpperCh(c) == IF c \in LowerSet THEN ToUpperTable[c] ELSE c

RECURSIVE lower(_)
\* str.lower(), character by character (split in halves to keep the recursion shallow)
lower(s) ==
    IF Len(s) = 0 THEN ""
    ELSE IF Len(s) = 1 THEN LowerCh(s)
    ELSE lower(SubSeq(s, 1, Len(s) \div 2)) \o lower(SubSeq(s, Len(s) \div 2 + 1, Len(s)))

\* needle in hay
Contains(hay, needle) ==
    \E i \in 1..(Len(hay) - Len(needle) + 1) : SubSeq(hay, i, i + Len(needle) - 1) = needle

\* s[i:].startswith(p)
StartsAt(s, i, p) == i + Len(p) - 1 <= Len(s) /\ SubSeq(s, i, i + Len(p) - 1) = p

RECURSIVE strip(_)
\* str.strip(): leading and trailing whitespace removed
strip(s) ==
    IF s = "" THEN ""
    ELSE IF IsSpace(Head(s)) THEN strip(Tail(s))
    ELSE IF IsSpace(Ch(s, Len(s))) THEN strip(SubSeq(s, 1, Len(s) - 1))
    ELSE s

RECURSIVE TitleFrom(_, _)
\* str.title(): a letter after a non-letter is upper-cased, any other letter lower-cased
TitleFrom(s, prevAlpha) ==
    IF s = "" THEN ""
    ELSE (IF prevAlpha THEN LowerCh(Head(s)) ELSE UpperCh(Head(s)))
             \o TitleFrom(Tail(s), IsAlpha(Head(s)))

title(s) == TitleFrom(s, FALSE)

RECURSIVE StrLess(_, _)
\* a < b on Python strings (code-point order)
StrLess(a, b) ==
    IF b = "" THEN FALSE
    ELSE IF a = "" THEN TRUE
    ELSE IF Head(a) = Head(b) THEN StrLess(Tail(a), Tail(b))
    ELSE OrdTable[Head(a)] < OrdTable[Head(b)]

RECURSIVE DigitsValue(_)
\* int() of a run of digits
DigitsValue(s) == IF s = "" THEN 0 ELSE 10 * DigitsValue(SubSeq(s, 1, Len(s) - 1)) + DigitTable[Ch(s, Len(s))]

Min(a, b) == IF a <= b THEN a ELSE b
Max(a, b) == IF a >= b THEN a ELSE b

\* the least element of a non-empty set of integers
Least(S) == CHOOSE x \in S : \A y \in S : x <= y

\* the [A-Za-z ] of the materials pattern
NameSet == LowerSet \cup UpperSet \cup {" "}

\* the first position at or after i whose character is not in chars
\* (Len(s) + 1 when the run reaches the end)
RunEnd(s, i, chars) ==
    CHOOSE x \in i..Max(i, Len(s) + 1) :
        /\ x > Len(s) \/ Ch(s, x) \notin chars
        /\ \A y \in i..(x - 1) : Ch(s, y) \in chars

\* Hundredths of a unit: round(x, 2) keeps two decimals, ai_processor.py line 60.
Hundredths == 100

----------------------------------------------------------------------------
(* Field extractors, backend/ai_processor.py                               *)

\* RAG_STORE = _load_regulatory_snippets(): the built-in snippets (the same three
\* texts scripts/setup_env.py writes into the documents directory).
RAG_STORE ==
    << <<"ESPR_Article_1", "Products must contain clear material composition and recycled content.">>,
       <<"ESPR_Article_2", "CO2 footprint reporting should be provided in kg CO2e with methodology.">>,
       <<"ESPR_Article_3", "Provide repairability and end-of-life recycling instructions.">> >>

\* A regex match: ok, where it starts, two captured groups (name, num) and the
\* position after it.
NoMatch == [ok |-> FALSE, start |-> 0, name |-> "", num |-> "", end |-> 0]
Match(start, name, num, end) == [ok |-> TRUE, start |-> start, name |-> name, num |-> num, end |-> end]

\* re.search: of the matches tried at every position, the leftmost
FirstMatch(ms) ==
    IF \A m \in ms : ~m.ok THEN NoMatch
    ELSE CHOOSE m \in ms : m.ok /\ \A o \in ms : o.ok => m.start <= o.start

\* re: (\d{1,3})\s*%  with the digits starting at k and ending before d.  Giving
\* digits back cannot help: the next character would be a digit.
PctSign(s, k, d) ==
    IF d - k \in 1..3 /\ StartsAt(s, RunEnd(s, d, SpaceSet), "%")
    THEN Match(k, "", SubSeq(s, k, d - 1), RunEnd(s, d, SpaceSet) + 1)
    ELSE NoMatch

PctDigits(s, k) == PctSign(s, k, RunEnd(s, k, DigitSet))

\* The rest of the materials pattern,  \s*(\d{1,3})\s*% , tried at position j.
PctTail(s, j) == PctDigits(s, RunEnd(s, j, SpaceSet))

\* the lazy name ends at the first of the positions js after which the rest matches
NameThenPct(s, i, js) ==
    IF js = {} THEN NoMatch
    ELSE [PctTail(s, Least(js)) EXCEPT !.start = i, !.name = SubSeq(s, i, Least(js) - 1)]

\* re: ([A-Za-z ]+?)\s*(\d{1,3})\s*%  matched at position i
MaterialMatchAt(s, i) ==
    NameThenPct(s, i, {j \in (i + 1)..RunEnd(s, i, NameSet) : PctTail(s, j).ok})

RECURSIVE MatchesFrom(_, _)
\* the match m, then the matches after its end
MatchThenRest(ms, m) == <<m>> \o MatchesFrom(ms, m.end)

\* of the matches ms, the leftmost at or after position i, then those after its end
MatchesFrom(ms, i) ==
    IF \A m \in ms : ~m.ok \/ m.start < i THEN <<>>
    ELSE MatchThenRest(ms, FirstMatch({m \in ms : m.start >= i}))

\* re.findall of the materials pattern: the leftmost non-overlapping matches
findall_materials(s) == MatchesFrom({MaterialMatchAt(s, x) : x \in 1..Len(s)}, 1)

Material(name, percentage) == [name |-> name, percentage |-> percentage]

\* lines 45-51: one match, dropped when its value is outside 0..100
MatchedMaterial(name, value) ==
    IF 0 <= value /\ value <= 100 * Hundredths
    THEN <<Material(title(lower(strip(name))), value)>>
    ELSE <<>>

RECURSIVE MatchedMaterials(_)
\* the loop of lines 44-51
MatchedMaterials(ms) ==
    IF ms = <<>> THEN <<>>
    ELSE MatchedMaterial(Head(ms).name, DigitsValue(Head(ms).num) * Hundredths)
            \o MatchedMaterials(Tail(ms))

MaterialKeywords == <<"Cotton", "Polyester", "Nylon", "Wool", "Steel", "Aluminium", "Glass", "ABS", "Copper">>

RECURSIVE KeywordMaterials(_, _)
\* lines 52-56: the keyword fallback, each found keyword at 0 percent
KeywordMaterials(low, kws) ==
    IF kws = <<>> THEN <<>>
    ELSE (IF Contains(low, lower(Head(kws))) THEN <<Material(Head(kws), 0)>> ELSE <<>>)
         \o KeywordMaterials(low, Tail(kws))

\* lines 52-56: the fallback runs only when the loop found nothing
MatchedOrKeywords(found, unstructured) ==
    IF found = <<>> THEN KeywordMaterials(lower(unstructured), MaterialKeywords) ELSE found

RECURSIVE SumPct(_)
SumPct(mats) == IF mats = <<>> THEN 0 ELSE Head(mats).percentage + SumPct(Tail(mats))

\* num / total to the nearest integer, a tie to the even one
RoundHalfEven(num, total) ==
    IF 2 * (num % total) < total THEN num \div total
    ELSE IF 2 * (num % total) > total THEN (num \div total) + 1
    ELSE IF (num \div total) % 2 = 0 THEN num \div total
    ELSE (num \div total) + 1

\* round(p / total * 100.0, 2) in hundredths
\* (agrees with the float computation for every p in 0..100 and total in 80..120)
RoundShare(p, total) == RoundHalfEven(p * 100 * Hundredths, total)

\* lines 58-60
Normalized(mats, total) ==
    IF total > 0 /\ 80 * Hundredths <= total /\ total <= 120 * Hundredths
    THEN [i \in 1..Len(mats) |-> Material(mats[i].name, RoundShare(mats[i].percentage, total))]
    ELSE mats

\* lines 57-60
NormalizeMaterials(mats) == Normalized(mats, SumPct(mats))

\* xs[:n]
Take(xs, n) == SubSeq(xs, 1, Min(n, Len(xs)))

_extract_materials(unstructured) ==
    Take(NormalizeMaterials(MatchedOrKeywords(MatchedMaterials(findall_materials(unstructured)),
                                              unstructured)), 10)

\* g characters other than a newline from position p, then (\d{1,3})\s*%
GapFits(s, p, g) ==
    /\ p + g <= Len(s)
    /\ \A x \in p..(p + g - 1) : Ch(s, x) # "\n"
    /\ PctDigits(s, p + g).ok

\* .{0,10}?(\d{1,3})\s*%  from position p: the lazy gap is the shortest that fits
GapThenPct(s, p, gs) == IF gs = {} THEN NoMatch ELSE PctDigits(s, p + Least(gs))

\* the match m, starting at position i
StartingAt(m, i) == IF m.ok THEN [m EXCEPT !.start = i] ELSE NoMatch

\* re: (recycled|post-consumer).{0,10}?(\d{1,3})\s*%  with re.I, matched at position i
RecycledMatchAt(s, low, i) ==
    IF StartsAt(low, i, "recycled")
    THEN StartingAt(GapThenPct(s, i + 8, {g \in 0..10 : GapFits(s, i + 8, g)}), i)
    ELSE IF StartsAt(low, i, "post-consumer")
    THEN StartingAt(GapThenPct(s, i + 13, {g \in 0..10 : GapFits(s, i + 13, g)}), i)
    ELSE NoMatch

search_recycled(s, low) == FirstMatch({RecycledMatchAt(s, low, x) : x \in 1..Len(s)})

\* lines 66-70: int(group 2), clamped to 0..100
RecycledValue(m) ==
    IF m.ok THEN Max(0, Min(DigitsValue(m.num) * Hundredths, 100 * Hundredths)) ELSE 0

_parse_recycled_content(text) == RecycledValue(search_recycled(text, lower(text)))

\* float() of a matched number, \d+(?:\.\d+)? , in hundredths
DecimalValue(int, frac) ==
    DigitsValue(int) * Hundredths
        + (IF frac = "" THEN 0
           ELSE IF Len(frac) = 1 THEN DigitsValue(frac) * 10
           ELSE DigitsValue(SubSeq(frac, 1, 2)))

\* re: \d+(?:\.\d+)?  at position i, its integer digits ending before a: the
\* greedy match, name the integer part and num the fraction
NumberFrom(s, i, a) ==
    IF a = i THEN NoMatch
    ELSE IF a + 1 <= Len(s) /\ Ch(s, a) = "." /\ IsDigit(Ch(s, a + 1))
    THEN Match(i, SubSeq(s, i, a - 1), SubSeq(s, a + 1, RunEnd(s, a + 1, DigitSet) - 1),
               RunEnd(s, a + 1, DigitSet))
    ELSE Match(i, SubSeq(s, i, a - 1), "", a)

NumberAt(s, i) == NumberFrom(s, i, RunEnd(s, i, DigitSet))

\* (?:kg\s*CO2e?|CO2) with re.I at position u
Co2UnitAt(low, u) ==
    \/ StartsAt(low, u, "kg") /\ StartsAt(low, RunEnd(low, u + 2, SpaceSet), "co2")
    \/ StartsAt(low, u, "co2")

\* the number n followed by \s* and the unit.  A shorter number cannot match: the
\* character after it would be a digit or the point.
NumberThenUnit(low, n) ==
    IF n.ok /\ Co2UnitAt(low, RunEnd(low, n.end, SpaceSet)) THEN n ELSE NoMatch

\* re: (\d+(?:\.\d+)?)\s*(?:kg\s*CO2e?|CO2)  with re.I, matched at position i
Co2MatchAt(s, low, i) == NumberThenUnit(low, NumberAt(s, i))

\* \b at position x, which follows a digit: the end of the text or a non-word character
Boundary(s, x) == x > Len(s) \/ ~IsWord(Ch(s, x))

\* the number n followed by \b: the greedy match, else its integer part alone
\* (which ends at the point, a boundary)
NumberThenBoundary(s, n) ==
    IF n.ok /\ ~Boundary(s, n.end) /\ n.num # ""
    THEN Match(n.start, n.name, "", n.end - Len(n.num) - 1)
    ELSE IF n.ok /\ Boundary(s, n.end) THEN n
    ELSE NoMatch

\* re: \b(\d+(?:\.\d+)?)\b  matched at position i
NumberMatchAt(s, i) ==
    IF i > 1 /\ IsWord(Ch(s, i - 1)) THEN NoMatch ELSE NumberThenBoundary(s, NumberAt(s, i))

search_co2(s, low) == FirstMatch({Co2MatchAt(s, low, x) : x \in 1..Len(s)})

search_number(s) == FirstMatch({NumberMatchAt(s, x) : x \in 1..Len(s)})

\* float(group 1) of a match, 0.0 without one
MatchedDecimal(m) == IF m.ok THEN DecimalValue(m.name, m.num) ELSE 0

\* lines 75-85: the unit pattern first, any number second
Co2OrNumber(m, text) == IF m.ok THEN MatchedDecimal(m) ELSE MatchedDecimal(search_number(text))

_parse_co2(text) == Co2OrNumber(search_co2(text, lower(text)), text)

ReferenceKeywords == <<"material", "recycled", "co2", "repair", "recycling">>

RECURSIVE InsertSorted(_, _)
InsertSorted(x, xs) ==
    IF xs = <<>> THEN <<x>>
    ELSE IF x = Head(xs) THEN xs
    ELSE IF StrLess(x, Head(xs)) THEN <<x>> \o xs
    ELSE <<Head(xs)>> \o InsertSorted(x, Tail(xs))

RECURSIVE SortedSet(_)
\* sorted(list(set(xs)))
SortedSet(xs) == IF xs = <<>> THEN <<>> ELSE InsertSorted(Head(xs), SortedSet(Tail(xs)))

\* lines 92-95: the keywords that are in both the text and the snippet
SharedKeywords(low, snippet) ==
    {k \in 1..Len(ReferenceKeywords) :
        Contains(low, ReferenceKeywords[k]) /\ Contains(snippet, ReferenceKeywords[k])}

RECURSIVE CollectReferences(_, _)
\* the loop of lines 90-96: an article id is appended once per shared keyword
CollectReferences(low, store) ==
    IF store = <<>> THEN <<>>
    ELSE [k \in 1..Cardinality(SharedKeywords(low, lower(Head(store)[2]))) |-> Head(store)[1]]
            \o CollectReferences(low, Tail(store))

\* a faulty variant of _find_references that leaves out sorted(list(set(...)))
FindReferencesUnsorted(text) == Take(CollectReferences(lower(text), RAG_STORE), 5)

\* line 97
_find_references(text) == Take(SortedSet(CollectReferences(lower(text), RAG_STORE)), 5)


----------------------------------------------------------------------------
(* Python values                                                           *)

\* A value of a dict or of a JSON document: t names its type and only the field of
\* that type is read (s: str, n: number in hundredths, l: list of str, m: list of
\* material dicts {name, percentage}); the other fields hold a filler.
PyNone == [t |-> "none", s |-> "", n |-> 0, l |-> <<>>, m |-> <<>>]
Str(x) == [t |-> "str", s |-> x, n |-> 0, l |-> <<>>, m |-> <<>>]
Num(x) == [t |-> "num", s |-> "", n |-> x, l |-> <<>>, m |-> <<>>]
StrList(xs) == [t |-> "list", s |-> "", n |-> 0, l |-> xs, m |-> <<>>]
MatList(ms) == IF ms = <<>> THEN StrList(<<>>) ELSE [t |-> "mats", s |-> "", n |-> 0, l |-> <<>>, m |-> ms]

\* bool(v)
Truthy(v) ==
    CASE v.t = "none" -> FALSE
      [] v.t = "str" -> v.s # ""
      [] v.t = "num" -> v.n # 0
      [] v.t = "list" -> v.l # <<>>
      [] v.t = "mats" -> v.m # <<>>

\* a or b
Or(a, b) == IF Truthy(a) THEN a ELSE b

\* d.get(k, default)
Get(d, k, default) == IF k \in DOMAIN d THEN d[k] ELSE default

RECURSIVE NatStr(_)
\* str() of a natural number
NatStr(n) == IF n < 10 THEN Ch(DigitChars, n + 1) ELSE NatStr(n \div 10) \o Ch(DigitChars, (n % 10) + 1)

RECURSIVE JoinStr(_, _)
\* sep.join(xs)
JoinStr(xs, sep) ==
    IF xs = <<>> THEN ""
    ELSE IF Len(xs) = 1 THEN xs[1]
    ELSE xs[1] \o sep \o JoinStr(Tail(xs), sep)

\* str() of a non-negative number: a whole one prints as the int it was in the JSON
\* input, any other with its one or two fraction digits
NumStr(n) ==
    IF n % Hundredths = 0 THEN NatStr(n \div Hundredths)
    ELSE IF n % 10 = 0 THEN NatStr(n \div Hundredths) \o "." \o NatStr((n % Hundredths) \div 10)
    ELSE NatStr(n \div Hundredths) \o "." \o Ch(DigitChars, ((n % Hundredths) \div 10) + 1)
             \o Ch(DigitChars, (n % 10) + 1)

\* str(v) of the values standardization stringifies
PyStr(v) ==
    CASE v.t = "str" -> v.s
      [] v.t = "num" -> NumStr(v.n)
      [] v.t = "none" -> "None"
      [] OTHER -> "[...]"

----------------------------------------------------------------------------
(* The record, backend/models.py                                           *)

DppFields == <<"product_id", "product_name", "manufacturer", "materials_composition",
               "recycled_content_percentage", "co2_footprint_kg", "repair_score",
               "recycling_instructions", "supply_chain_partners", "compliance_status",
               "espr_article_references">>

IsStrValue(v) == v.t = "str"
IsNumValue(v) == v.t = "num"
IsStrListValue(v) == v.t = "list"
\* List[Material]: every percentage passes Field(ge=0, le=100)
IsMaterialListValue(v) ==
    \/ v.t = "list" /\ v.l = <<>>
    \/ v.t = "mats" /\ \A i \in 1..Len(v.m) :
            0 <= v.m[i].percentage /\ v.m[i].percentage <= 100 * Hundredths

\* DigitalProductPassport(**data) raises no ValidationError: the three required
\* fields are there and every field given has its declared type.  Keys that are no
\* field of the model are ignored.
ValidDppData(data) ==
    /\ \A k \in {"product_id", "product_name", "manufacturer"} : k \in DOMAIN data
    /\ \A k \in {"product_id", "product_name", "manufacturer", "repair_score",
                 "recycling_instructions", "compliance_status"} :
            k \in DOMAIN data => IsStrValue(data[k])
    /\ \A k \in {"recycled_content_percentage", "co2_footprint_kg"} :
            k \in DOMAIN data => IsNumValue(data[k])
    /\ \A k \in {"supply_chain_partners", "espr_article_references"} :
            k \in DOMAIN data => IsStrListValue(data[k])
    /\ "materials_composition" \in DOMAIN data => IsMaterialListValue(data["materials_composition"])

\* The validated record: the fields given, the declared defaults for the others.
DigitalProductPassport(data) ==
    [product_id |-> data["product_id"].s,
     product_name |-> data["product_name"].s,
     manufacturer |-> data["manufacturer"].s,
     materials_composition |-> Get(data, "materials_composition", StrList(<<>>)).m,
     recycled_content_percentage |-> Get(data, "recycled_content_percentage", Num(0)).n,
     co2_footprint_kg |-> Get(data, "co2_footprint_kg", Num(0)).n,
     repair_score |-> Get(data, "repair_score", Str("N/A")).s,
     recycling_instructions |-> Get(data, "recycling_instructions", Str("")).s,
     supply_chain_partners |-> Get(data, "supply_chain_partners", StrList(<<>>)).l,
     compliance_status |-> Get(data, "compliance_status", Str("unknown")).s,
     espr_article_references |-> Get(data, "espr_article_references", StrList(<<>>)).l]

\* dpp.model_dump(): the record as a dict
model_dump(dpp) ==
    [k \in {DppFields[i] : i \in 1..Len(DppFields)} |->
        CASE k = "materials_composition" -> MatList(dpp.materials_composition)
          [] k = "recycled_content_percentage" -> Num(dpp.recycled_content_percentage)
          [] k = "co2_footprint_kg" -> Num(dpp.co2_footprint_kg)
          [] k = "supply_chain_partners" -> StrList(dpp.supply_chain_partners)
          [] k = "espr_article_references" -> StrList(dpp.espr_article_references)
          [] OTHER -> Str(dpp[k])]

----------------------------------------------------------------------------
(* Standardization, backend/ai_processor.py                                *)

\* str(uuid.uuid4()) for the n-th identifier drawn: distinct for distinct n, and
\* no identifier a client sends.
Uuid(n) == "uuid-" \o NatStr(n)

FreeTextKeys == <<"description", "notes", "bom_text", "specs", "details">>

RECURSIVE UnstructuredParts(_, _)
\* lines 129-133: the string values of the free-text keys, in their fixed order
UnstructuredParts(raw, keys) ==
    IF keys = <<>> THEN <<>>
    ELSE (IF Get(raw, Head(keys), PyNone).t = "str" THEN <<raw[Head(keys)].s>> ELSE <<>>)
         \o UnstructuredParts(raw, Tail(keys))

Unstructured(raw) == JoinStr(UnstructuredParts(raw, FreeTextKeys), "\n")

DefaultRecyclingInstructions == "Check local guidelines; disassemble by material where possible."
DefaultReferences == <<"ESPR_Article_1", "ESPR_Article_2">>
ProbeText == "material recycled co2 repair recycling"

\* lines 146: the product id, and whether a uuid was drawn for it
ProductIdOf(raw, uuid) == Or(Get(raw, "product_id", PyNone), Str(uuid))
DrawsUuid(raw) == ~Truthy(Get(raw, "product_id", PyNone))

\* line 164: refs or the two-entry default
ReferencesOrDefault(refs) == IF refs # <<>> THEN refs ELSE DefaultReferences

\* lines 141-165: the dict of the rule-based path, built from the free text
RuleFields(raw, uuid, unstructured) ==
    [k \in {DppFields[i] : i \in 1..Len(DppFields)} |->
       CASE k = "product_id" -> ProductIdOf(raw, uuid)
         [] k = "product_name" ->
                Or(Get(raw, "product_name", PyNone), Or(Get(raw, "name", PyNone), Str("Unknown Product")))
         [] k = "manufacturer" ->
                Or(Get(raw, "manufacturer", PyNone), Or(Get(raw, "brand", PyNone), Str("Unknown Manufacturer")))
         [] k = "materials_composition" -> MatList(_extract_materials(unstructured))
         [] k = "recycled_content_percentage" -> Num(_parse_recycled_content(unstructured))
         [] k = "co2_footprint_kg" -> Num(_parse_co2(unstructured))
         [] k = "repair_score" -> Str(PyStr(Or(Get(raw, "repair_score", PyNone), Str("N/A"))))
         [] k = "recycling_instructions" ->
                Or(Get(raw, "recycling_instructions", PyNone), Str(DefaultRecyclingInstructions))
         [] k = "supply_chain_partners" ->
                Or(Get(raw, "supply_chain_partners", PyNone), Or(Get(raw, "suppliers", PyNone), StrList(<<>>)))
         [] k = "compliance_status" -> Str("unknown")
         [] k = "espr_article_references" ->
                StrList(ReferencesOrDefault(
                    _find_references(IF unstructured # "" THEN unstructured ELSE ProbeText)))]

RuleBasedData(raw, uuid) == RuleFields(raw, uuid, Unstructured(raw))


\* What the external text-generation call comes back with.  kind "raise": the call
\* raised (transport error, timeout, rejected key); kind "none": a response whose
\* message content is None; kind "content": a text, given as its tokens: an opening
\* brace, a closing brace, a run of other text (in key), or one "key": value member
\* of a JSON object.
TokOpen == [tok |-> "{", key |-> "{", val |-> PyNone]
TokClose == [tok |-> "}", key |-> "}", val |-> PyNone]
TokText(x) == [tok |-> "text", key |-> x, val |-> PyNone]
TokMember(k, v) == [tok |-> "member", key |-> k, val |-> v]

ReplyRaise == [kind |-> "raise", content |-> <<>>]
ReplyNone == [kind |-> "none", content |-> <<>>]
ReplyContent(toks) == [kind |-> "content", content |-> toks]

EmptyDict == [k \in {} |-> PyNone]

\* re.search(r"{.*}", content, re.S): from the first opening brace to the last
\* closing brace after it
BraceSpan(content) ==
    IF \E i, j \in 1..Len(content) : i < j /\ content[i].tok = "{" /\ content[j].tok = "}"
    THEN [ok |-> TRUE,
          toks |-> SubSeq(content, Least({i \in 1..Len(content) : content[i].tok = "{"}),
                          CHOOSE j \in 1..Len(content) :
                              /\ content[j].tok = "}"
                              /\ \A x \in (j + 1)..Len(content) : content[x].tok # "}")]
    ELSE [ok |-> FALSE, toks |-> <<>>]

\* json.loads(span) raises unless the span is one object: members only between its braces
JsonParses(toks) == \A i \in 2..(Len(toks) - 1) : toks[i].tok = "member"

\* json.loads(span): the object as a dict, a repeated key keeping its last value
JsonObject(toks) ==
    [k \in {toks[i].key : i \in 2..(Len(toks) - 1)} |->
        toks[CHOOSE i \in 2..(Len(toks) - 1) :
                /\ toks[i].key = k
                /\ \A j \in (i + 1)..(Len(toks) - 1) : toks[j].key # k].val]

\* d.pop(k, None)
Without(d, k) == [x \in DOMAIN d \ {k} |-> d[x]]

\* the guard the three callers share: the openai import succeeded and a key is set
StrategyAvailable == settings.OpenAI /\ settings.OPENAI_API_KEY # ""

\* lines 119-122: json.loads of the span re.search found; ok is false when there
\* is no span or it does not parse (either raises or falls through)
ParsedSpan(match) ==
    IF match.ok /\ JsonParses(match.toks)
    THEN [ok |-> TRUE, obj |-> JsonObject(match.toks)]
    ELSE [ok |-> FALSE, obj |-> EmptyDict]

\* the JSON object in a reply: none when the call raises or the content is None
\* (re.search raises on it)
ReplyObject(reply) ==
    IF reply.kind = "content" THEN ParsedSpan(BraceSpan(reply.content))
    ELSE [ok |-> FALSE, obj |-> EmptyDict]

\* a faulty variant of _openai_assisted_standardize that reads the members of a
\* span json.loads rejects
LenientStandardize(reply) ==
    IF StrategyAvailable /\ reply.kind = "content" /\ BraceSpan(reply.content).ok
    THEN Without(JsonObject(BraceSpan(reply.content).toks), "notes")
    ELSE EmptyDict

\* lines 99-126: {} when the strategy is unavailable or the reply holds no object
_openai_assisted_standardize(reply) ==
    IF ~StrategyAvailable THEN EmptyDict ELSE Without(ReplyObject(reply).obj, "notes")

NoDpp == DigitalProductPassport([k \in {"product_id", "product_name", "manufacturer"} |-> Str("")])

\* line 167: DigitalProductPassport(**data).  raised: a ValidationError; path: which
\* branch built the dict; drew: whether line 146 drew a uuid.
Validated(data, path, drew) ==
    [raised |-> ~ValidDppData(data),
     dpp |-> IF ValidDppData(data) THEN DigitalProductPassport(data) ELSE NoDpp,
     path |-> path,
     drew |-> drew]

\* lines 139-167: the rule-based path runs when the strategy's dict is empty
Standardized(data, raw, uuid) ==
    IF DOMAIN data # {} THEN Validated(data, "external", FALSE)
    ELSE Validated(RuleBasedData(raw, uuid), "rule", DrawsUuid(raw))

\* lines 128-167
standardize_product_data(raw, reply, uuid) ==
    Standardized(IF settings.AI_BACKEND = "openai" THEN _openai_assisted_standardize(reply) ELSE EmptyDict,
                 raw, uuid)

----------------------------------------------------------------------------
(* Compliance evaluator, backend/services/data_validator.py                *)

\* repair in ("N/A", "", None)
RepairMissing(repair) == repair.t = "none" \/ (repair.t = "str" /\ repair.s \in {"N/A", ""})

\* x == 0.0
IsZero(v) == v.t = "num" /\ v.n = 0

\* a faulty variant of Issues that leaves out the rule of lines 19-20
IssuesMaterialsOnly(dpp) ==
    IF ~Truthy(Get(dpp, "materials_composition", StrList(<<>>)))
    THEN <<"Missing materials composition.">> ELSE <<>>

\* lines 13-14 and 19-20
Issues(dpp) ==
    (IF ~Truthy(Get(dpp, "materials_composition", StrList(<<>>)))
     THEN <<"Missing materials composition.">> ELSE <<>>)
    \o (IF ~Truthy(Get(dpp, "recycling_instructions", Str("")))
        THEN <<"Recycling instructions required.">> ELSE <<>>)

\* lines 15-18 and 21-22
Warnings(dpp) ==
    (IF IsZero(Get(dpp, "recycled_content_percentage", Num(0)))
     THEN <<"Recycled content not specified or zero.">> ELSE <<>>)
    \o (IF IsZero(Get(dpp, "co2_footprint_kg", Num(0))) THEN <<"CO2 footprint not specified.">> ELSE <<>>)
    \o (IF RepairMissing(Get(dpp, "repair_score", Str("N/A")))
        THEN <<"Repair score not provided.">> ELSE <<>>)

\* lines 24-32
Report(dpp, issues, warnings) ==
    [product_id |-> Get(dpp, "product_id", PyNone),
     status |-> IF issues # <<>> THEN "non_compliant"
                ELSE IF warnings # <<>> THEN "partially_compliant"
                ELSE "compliant",
     issues |-> issues,
     warnings |-> warnings,
     espr_article_references |-> Get(dpp, "espr_article_references", StrList(<<>>))]

check_espr_compliance(dpp) == Report(dpp, Issues(dpp), Warnings(dpp))


----------------------------------------------------------------------------
(* Insights and question answering, backend/ai_processor.py                *)
(* (the code's subscript-2, ">=" and dash glyphs are written in ASCII)     *)

\* str(x) of a float
FloatStr(n) ==
    IF n % Hundredths = 0 THEN NatStr(n \div Hundredths) \o ".0" ELSE NumStr(n)

\* f"{x:.2f}"
Fmt2(n) ==
    NatStr(n \div Hundredths) \o "." \o Ch(DigitChars, ((n % Hundredths) \div 10) + 1)
        \o Ch(DigitChars, (n % 10) + 1)

\* f"{x:.1f}": to the nearest tenth (exact whenever x has one fraction digit, as
\* every number of the modelled inputs has where this is used)
Tenths(t) == NatStr(t \div 10) \o "." \o Ch(DigitChars, (t % 10) + 1)
Fmt1(n) == Tenths(RoundHalfEven(n, 10))

\* f"{v}" of a dict value
Fmt(v) == IF v.t = "num" THEN FloatStr(v.n) ELSE PyStr(v)

\* ", ".join(f"{m.get('name')} {m.get('percentage', 0)}%" for m in mats)
MaterialsText(mats) ==
    JoinStr([i \in 1..Len(mats) |-> mats[i].name \o " " \o FloatStr(mats[i].percentage) \o "%"], ", ")

\* lines 179-187
Hints(dpp) ==
    (IF Get(dpp, "recycled_content_percentage", Num(0)).n < 20 * Hundredths
     THEN <<"Recycled content below typical targets (>=20-30%). Consider supplier update.">> ELSE <<>>)
    \o (IF IsZero(Get(dpp, "co2_footprint_kg", Num(0)))
        THEN <<"CO2 footprint not reported; add methodology and kg CO2e.">> ELSE <<>>)
    \o (IF RepairMissing(Get(dpp, "repair_score", Str("N/A")))
        THEN <<"Repair score missing; include iFixit-style or internal metric.">> ELSE <<>>)
    \o (IF ~Truthy(Get(dpp, "recycling_instructions", PyNone))
        THEN <<"Add clear end-of-life recycling guidance.">> ELSE <<>>)

\* x or default, for a str
StrOr(x, default) == IF x # "" THEN x ELSE default

\* line 172: dpp.get("materials_composition") or []
MaterialsOf(given) == IF Truthy(given) THEN given.m ELSE <<>>

\* line 189
Bullets(hints) == JoinStr([i \in 1..Len(hints) |-> "- " \o hints[i]], "\n")

\* lines 171-198, for a dict whose two numbers are numbers (any other value raises)
_compose_summary_rules(dpp) ==
    "Product: " \o PyStr(Get(dpp, "product_name", Str("Unknown")))
        \o " (Manufacturer: " \o PyStr(Get(dpp, "manufacturer", Str("Unknown"))) \o ")\n"
        \o "Materials: "
        \o StrOr(MaterialsText(Take(MaterialsOf(Get(dpp, "materials_composition", PyNone)), 4)),
                 "not specified") \o "\n"
        \o "Recycled content: " \o Fmt1(Get(dpp, "recycled_content_percentage", Num(0)).n) \o "%\n"
        \o "CO2 footprint: " \o Fmt2(Get(dpp, "co2_footprint_kg", Num(0)).n) \o " kg CO2e\n"
        \o "Repair score: " \o PyStr(Get(dpp, "repair_score", Str("N/A"))) \o "\n"
        \o "Compliance status: " \o PyStr(Get(dpp, "compliance_status", Str("unknown"))) \o "\n\n"
        \o "Recommendations:\n" \o StrOr(Bullets(Hints(dpp)), "- No immediate issues detected.")

\* a faulty variant of RuleScore that also takes 10 off for a missing repair score
RuleScoreWithRepair(dpp) ==
    Max(0, Min(100 * Hundredths,
               70 * Hundredths
                 - (IF Get(dpp, "recycled_content_percentage", Num(0)).n < 20 * Hundredths
                    THEN 10 * Hundredths ELSE 0)
                 - (IF IsZero(Get(dpp, "co2_footprint_kg", Num(0))) THEN 10 * Hundredths ELSE 0)
                 - (IF RepairMissing(Get(dpp, "repair_score", Str("N/A"))) THEN 10 * Hundredths ELSE 0)
                 - (IF ~Truthy(Get(dpp, "recycling_instructions", PyNone)) THEN 10 * Hundredths ELSE 0)))

\* lines 227-234: the crude score, 10 off for each of the three conditions
RuleScore(dpp) ==
    Max(0, Min(100 * Hundredths,
               70 * Hundredths
                 - (IF Get(dpp, "recycled_content_percentage", Num(0)).n < 20 * Hundredths
                    THEN 10 * Hundredths ELSE 0)
                 - (IF IsZero(Get(dpp, "co2_footprint_kg", Num(0))) THEN 10 * Hundredths ELSE 0)
                 - (IF ~Truthy(Get(dpp, "recycling_instructions", PyNone)) THEN 10 * Hundredths ELSE 0)))

\* the two numbers the rule-based summary compares and formats are numbers
NumbersUsable(dpp) ==
    /\ Get(dpp, "recycled_content_percentage", Num(0)).t = "num"
    /\ Get(dpp, "co2_footprint_kg", Num(0)).t = "num"

\* lines 225-234: the rule-based fallback; raised: it raised a TypeError
RuleInsights(dpp) ==
    IF ~NumbersUsable(dpp)
    THEN [raised |-> TRUE, path |-> "rule", summary |-> "", score |-> PyNone]
    ELSE [raised |-> FALSE, path |-> "rule",
          summary |-> _compose_summary_rules(dpp), score |-> Num(RuleScore(dpp))]

\* lines 219-223: the strategy's object is returned as it is when it has both keys
InsightsFrom(parsed, dpp) ==
    IF parsed.ok /\ {"summary", "score"} \subseteq DOMAIN parsed.obj
    THEN [raised |-> FALSE, path |-> "external",
          summary |-> PyStr(parsed.obj["summary"]), score |-> parsed.obj["score"]]
    ELSE RuleInsights(dpp)

\* lines 200-234
summarize_insights(dpp, reply) ==
    IF settings.AI_BACKEND = "openai" /\ StrategyAvailable
    THEN InsightsFrom(ReplyObject(reply), dpp)
    ELSE RuleInsights(dpp)

RECURSIVE ContentText(_)
\* the text of a reply's content
ContentText(toks) ==
    IF toks = <<>> THEN ""
    ELSE (IF Head(toks).tok = "member" THEN Head(toks).key \o ": " \o PyStr(Head(toks).val) \o ","
          ELSE Head(toks).key) \o ContentText(Tail(toks))

DeflectionAnswer == "Based on the DPP, the requested detail isn't explicitly reported. Consider updating supplier data."

\* line 259: the materials as text, "not specified" without any
MatsText(dpp) ==
    StrOr(MaterialsText(Get(dpp, "materials_composition", StrList(<<>>)).m), "not specified")

\* lines 263-271: the answer of each branch of the router, the deflection last
ClassAnswer(dpp, class) ==
    CASE class = 1 ->
            "Recycling guidance: " \o PyStr(Get(dpp, "recycling_instructions", Str("not provided")))
                \o ". Materials: " \o MatsText(dpp) \o "."
      [] class = 2 -> "Reported CO2 footprint: " \o Fmt(Get(dpp, "co2_footprint_kg", Num(0))) \o " kg CO2e."
      [] class = 3 -> "Materials composition: " \o MatsText(dpp) \o "."
      [] class = 4 ->
            "Recycled content: " \o Fmt1(Get(dpp, "recycled_content_percentage", Num(0)).n) \o "%."
      [] OTHER -> DeflectionAnswer

\* a faulty variant of Routed that tests the materials class before the CO2 class
RoutedMaterialsFirst(dpp, q) ==
    IF Contains(q, "recycle") THEN ClassAnswer(dpp, 1)
    ELSE IF Contains(q, "materials") \/ Contains(q, "composition") THEN ClassAnswer(dpp, 3)
    ELSE IF Contains(q, "co2") \/ Contains(q, "footprint") THEN ClassAnswer(dpp, 2)
    ELSE IF Contains(q, "recycled") THEN ClassAnswer(dpp, 4)
    ELSE ClassAnswer(dpp, 5)

\* lines 262-271: the keyword router, q the lower-cased question
Routed(dpp, q) ==
    IF Contains(q, "recycle") THEN ClassAnswer(dpp, 1)
    ELSE IF Contains(q, "co2") \/ Contains(q, "footprint") THEN ClassAnswer(dpp, 2)
    ELSE IF Contains(q, "materials") \/ Contains(q, "composition") THEN ClassAnswer(dpp, 3)
    ELSE IF Contains(q, "recycled") THEN ClassAnswer(dpp, 4)
    ELSE ClassAnswer(dpp, 5)

\* lines 259-271
RuleAnswer(dpp, question) == Routed(dpp, lower(question))

\* lines 236-271: the strategy's stripped text when it is configured and answers,
\* the keyword router otherwise
qa_on_dpp(dpp, question, reply) ==
    IF settings.AI_BACKEND = "openai" /\ StrategyAvailable /\ reply.kind = "content"
    THEN [path |-> "external", answer |-> strip(ContentText(reply.content))]
    ELSE [path |-> "rule", answer |-> RuleAnswer(dpp, question)]


----------------------------------------------------------------------------
(* JSON documents                                                          *)

\* json.load: the object of a document, given as its <<key, value>> members in order
json_load(doc) ==
    [k \in {doc[i][1] : i \in 1..Len(doc)} |->
        doc[CHOOSE i \in 1..Len(doc) :
                doc[i][1] = k /\ \A j \in (i + 1)..Len(doc) : doc[j][1] # k][2]]

\* the keys of a document in the order a dict built from it holds them: each key
\* where it first appears
KeysOf(doc) ==
    [i \in 1..Cardinality({doc[j][1] : j \in 1..Len(doc)}) |->
        doc[CHOOSE j \in 1..Len(doc) :
                /\ \A x \in 1..(j - 1) : doc[x][1] # doc[j][1]
                /\ Cardinality({doc[x][1] : x \in 1..j}) = i][1]]

\* json.dump: the members of dict d, whose keys are in the order keys
json_dump(d, keys) == [i \in 1..Len(keys) |-> <<keys[i], d[keys[i]]>>]

----------------------------------------------------------------------------
(* Inputs                                                                  *)

Absent == [t |-> "absent", s |-> "", n |-> 0, l |-> <<>>, m |-> <<>>]
\* the member "k": v of a request body, none when the key is left out
Field(k, v) == IF v.t = "absent" THEN <<>> ELSE << <<k, v>> >>

TextileDescription == "Material: Cotton 60%, Polyester 40%. Recycled content ~ 25%. CO2 ~ 2.4 kg CO2e."
TextileNotes == "Repair score 7/10"
PhoneBom == "Frame: Aluminium 40%; Glass 30%; Plastics (ABS) 30% recycled 15%. Total CO2 18.5 kg CO2e."
PhoneSpecs == "Repair score 6/10; Battery removable; End-of-life: return to store."

\* the textile input of tests/test_ai_processor.py, its notes cut after the repair score
TextileBody == Field("product_name", Str("Eco Tee")) \o Field("manufacturer", Str("GreenThreads"))
                   \o Field("description", Str(TextileDescription)) \o Field("notes", Str(TextileNotes))
\* tests/test_api_endpoints.py
PhoneBody == Field("product_name", Str("EcoPhone X")) \o Field("manufacturer", Str("CircuLab"))
                 \o Field("bom_text", Str(PhoneBom)) \o Field("specs", Str(PhoneSpecs))

\* free-text members of a request body
TextVariants ==
    { <<>>,
      Field("description", Str(TextileDescription)) \o Field("notes", Str(TextileNotes)),
      Field("bom_text", Str(PhoneBom)) \o Field("specs", Str(PhoneSpecs)),
      Field("details", Str("Shell: recycled nylon, wool lining. Weighs 2.45kg")),
      Field("description", Str("post-consumer PET 1234 % of the shell; organic cotton 96 %, elastane 3%")),
      Field("description", Num(42 * Hundredths)) \o Field("materials", Str("Cotton 100%")),
      Field("materials", StrList(<<"Cotton">>)),
      Field("notes", Str("hand made")) }

\* bodies that vary the identity fields
IdentityBodies ==
    { Field("product_id", a) \o Field("product_name", b) \o Field("name", c)
        \o Field("manufacturer", d) \o Field("brand", e) :
        a \in {Absent, Str(""), Str("p1"), Num(42 * Hundredths)},
        b \in {Absent, Str(""), Str("Eco Tee"), Num(7 * Hundredths)},
        c \in {Absent, Str("Tee")},
        d \in {Absent, Str("GreenThreads")},
        e \in {Absent, Str("Brand")} }

\* bodies that vary the other explicit fields
DetailBodies ==
    { Field("product_id", Str("p2")) \o Field("repair_score", a) \o Field("recycling_instructions", b)
        \o Field("supply_chain_partners", c) \o Field("suppliers", d) :
        a \in {Absent, PyNone, Num(0), Num(7 * Hundredths), Str("7/10"), Str("")},
        b \in {Absent, Str(""), Str("Return to store"), Num(1 * Hundredths)},
        c \in {Absent, StrList(<<>>), StrList(<<"Acme Textiles Ltd">>)},
        d \in {Absent, StrList(<<"EcoPack Co">>)} }

\* bodies that vary the free text
TextBodies ==
    { Field("product_id", a) \o Field("product_name", Str("Item")) \o t :
        a \in {Absent, Str("p1")}, t \in TextVariants }

StandardizeBodies == IdentityBodies \cup DetailBodies \cup TextBodies \cup {TextileBody, PhoneBody}

\* a complete object, as the strategy is asked for it
FullMembers(pid, recycled, mats, refs) ==
    <<TokMember("product_id", pid), TokMember("product_name", Str("LLM Tee")),
      TokMember("manufacturer", Str("LLM Maker")), TokMember("materials_composition", mats),
      TokMember("recycled_content_percentage", recycled), TokMember("co2_footprint_kg", Num(240)),
      TokMember("repair_score", Str("7/10")), TokMember("recycling_instructions", Str("Return to store")),
      TokMember("supply_chain_partners", StrList(<<>>)), TokMember("compliance_status", Str("unknown")),
      TokMember("espr_article_references", refs), TokMember("notes", Str("assumed cotton"))>>

ElevenMaterials == [i \in 1..11 |-> Material("Fibre " \o NatStr(i), 9 * Hundredths)]
TwoMaterials == <<Material("Cotton", 60 * Hundredths), Material("Polyester", 40 * Hundredths)>>

\* replies that give no result
FailedReplies ==
    { ReplyRaise,
      ReplyNone,
      ReplyContent(<<TokText("Sorry, I cannot help with that.")>>),
      ReplyContent(<<TokText("Here you go: "), TokOpen, TokMember("product_name", Str("LLM Tee"))>>),
      ReplyContent(<<TokClose, TokMember("product_name", Str("LLM Tee")), TokOpen>>),
      ReplyContent(<<TokOpen, TokMember("product_name", Str("LLM Tee")), TokText("..."), TokClose>>),
      ReplyContent(<<TokOpen>> \o FullMembers(Str("p9"), Num(25 * Hundredths), MatList(TwoMaterials),
                                               StrList(<<"ESPR_Article_1">>))
                       \o <<TokClose, TokText(" or "), TokOpen, TokClose>>) }

\* replies that hold one JSON object
ObjectReplies ==
    { ReplyContent(<<TokText("Here is the JSON: "), TokOpen>>
                       \o FullMembers(Str("p9"), Num(25 * Hundredths), MatList(TwoMaterials),
                                      StrList(<<"ESPR_Article_1">>))
                       \o <<TokClose, TokText(" Hope this helps.")>>),
      ReplyContent(<<TokOpen>> \o FullMembers(Str(""), Num(0), MatList(<<>>), StrList(<<>>)) \o <<TokClose>>),
      ReplyContent(<<TokOpen>> \o FullMembers(Str("p9"), Num(150 * Hundredths), MatList(ElevenMaterials),
                                               StrList(<<"ESPR_Article_3", "ESPR_Article_1", "ESPR_Article_3">>))
                       \o <<TokClose>>),
      ReplyContent(<<TokOpen>> \o FullMembers(Str("p9"), Num(25 * Hundredths),
                                               MatList(<<Material("Cotton", 160 * Hundredths)>>), StrList(<<>>))
                       \o <<TokClose>>),
      ReplyContent(<<TokOpen, TokMember("product_name", Str("LLM Tee")), TokClose>>),
      ReplyContent(<<TokOpen, TokMember("notes", Str("nothing to add")), TokClose>>),
      ReplyContent(<<TokOpen, TokClose>>) }

StandardizeReplies == FailedReplies \cup ObjectReplies

\* config.settings as the environment can set it, and whether `from openai import
\* OpenAI` succeeded
SettingsChoices ==
    { [AI_BACKEND |-> "mock", OPENAI_API_KEY |-> "", OpenAI |-> TRUE],
      [AI_BACKEND |-> "openai", OPENAI_API_KEY |-> "", OpenAI |-> TRUE],
      [AI_BACKEND |-> "openai", OPENAI_API_KEY |-> "sk-test", OpenAI |-> FALSE],
      [AI_BACKEND |-> "openai", OPENAI_API_KEY |-> "sk-test", OpenAI |-> TRUE] }


----------------------------------------------------------------------------
(* The request handlers, backend/app.py                                    *)

\* how many uuid4() draws a run of the server may make
MaxUuids == 2

EmptyFiles == [k \in {} |-> <<>>]

\* open(path, "w") and json.dump: the file is created or replaced
WriteFile(files, stem, doc) ==
    [k \in DOMAIN files \cup {stem} |-> IF k = stem THEN doc ELSE files[k]]

Pending == [status |-> "pending"]
NotFound(detail) == [status |-> "404", detail |-> detail]

\* request bodies of POST /api/process-product: one without a product_id, two
\* versions of product p1, and one the record rejects
ApiBodies ==
    { Field("product_name", Str("Eco Tee")) \o Field("manufacturer", Str("GreenThreads"))
          \o Field("description", Str("Cotton 60%, Polyester 40%. CO2 2.4 kg")),
      Field("product_id", Str("p1")) \o Field("product_name", Str("EcoPhone X"))
          \o Field("bom_text", Str("Glass 30% recycled 15%")),
      Field("product_id", Str("p1")) \o Field("name", Str("Phone v2")) \o Field("repair_score", Num(0)),
      Field("product_id", Str("p2")) \o Field("product_name", Num(7 * Hundredths)) }

ApiReplies ==
    { ReplyRaise,
      ReplyContent(<<TokOpen>> \o FullMembers(Str("p9"), Num(25 * Hundredths), MatList(TwoMaterials),
                                               StrList(<<"ESPR_Article_1">>)) \o <<TokClose>>),
      ReplyContent(<<TokOpen>> \o FullMembers(Str(""), Num(0), MatList(<<>>), StrList(<<>>)) \o <<TokClose>>) }

\* the replies that matter under the settings in force: without a usable strategy
\* no call is made
RepliesIn(replies) == IF settings.AI_BACKEND = "openai" /\ StrategyAvailable THEN replies ELSE {ReplyRaise}

\* product ids a client asks for in a path
LookupIds == {"p1", "p2", "p9", "uuid-2", "unknown"}

ApiQuestions == {"What is the CO2 footprint?"}

\* lines 56-77.  drawn counts the uuids after line 60, which draws one when the
\* body gives no usable product_id; the raw file is written before standardization.
process_product(body, reply) ==
    \E raw \in {json_load(body)} :
      \E drawn \in {uuid_count + (IF DrawsUuid(raw) THEN 1 ELSE 0)} :
        \E std \in {standardize_product_data(raw, reply, Uuid(drawn + 1))} :
          /\ drawn + (IF std.drew THEN 1 ELSE 0) <= MaxUuids
          /\ request' = [op |-> "process_product", body |-> body, reply |-> reply]
          /\ raw_files' = WriteFile(raw_files, PyStr(ProductIdOf(raw, Uuid(uuid_count + 1))),
                                    json_dump(raw, KeysOf(body)))
          /\ uuid_count' = drawn + (IF std.drew THEN 1 ELSE 0)
          /\ IF std.raised
             THEN /\ response' = [status |-> "400", detail |-> "Processing error"]
                  /\ UNCHANGED <<processed_files, served>>
             ELSE \E dumped \in {model_dump(std.dpp)} :
                  /\ processed_files' = WriteFile(processed_files, std.dpp.product_id,
                                                  json_dump(dumped, DppFields))
                  /\ response' = [status |-> "200", message |-> "processed",
                                  product_id |-> std.dpp.product_id, dpp |-> dumped]
                  /\ served' = WriteFile(served, std.dpp.product_id, dumped)
          /\ UNCHANGED settings

\* lines 93-100
get_dpp(product_id) ==
    /\ request' = [op |-> "get_dpp", product_id |-> product_id]
    /\ response' = IF product_id \notin DOMAIN processed_files THEN NotFound("DPP not found")
                   ELSE [status |-> "200", body |-> json_load(processed_files[product_id])]
    /\ UNCHANGED <<settings, raw_files, processed_files, uuid_count, served>>

\* lines 103-111
compliance_report(product_id) ==
    /\ request' = [op |-> "compliance_report", product_id |-> product_id]
    /\ response' = IF product_id \notin DOMAIN processed_files THEN NotFound("DPP not found")
                   ELSE [status |-> "200",
                         body |-> check_espr_compliance(json_load(processed_files[product_id]))]
    /\ UNCHANGED <<settings, raw_files, processed_files, uuid_count, served>>

\* lines 150-160: the rows of one product, lead its three identity cells
RowsOf(dpp, lead, mats) ==
    << <<"product_id", "product_name", "manufacturer", "metric", "value">>,
       lead \o <<"recycled_content_percentage", Fmt(Get(dpp, "recycled_content_percentage", Num(0)))>>,
       lead \o <<"co2_footprint_kg", Fmt(Get(dpp, "co2_footprint_kg", Num(0)))>>,
       lead \o <<"repair_score", Fmt(Get(dpp, "repair_score", Str("")))>> >>
    \o [i \in 1..Len(mats) |-> lead \o <<"material:" \o mats[i].name, FloatStr(mats[i].percentage)>>]

\* lines 141-161: the rows of the CSV, each cell as csv.writer writes it
CsvRows(dpp) ==
    RowsOf(dpp, <<dpp["product_id"].s, dpp["product_name"].s, dpp["manufacturer"].s>>,
           Get(dpp, "materials_composition", StrList(<<>>)).m)

export_csv(product_id) ==
    /\ request' = [op |-> "export_csv", product_id |-> product_id]
    /\ response' = IF product_id \notin DOMAIN processed_files THEN NotFound("DPP not found")
                   ELSE [status |-> "200", body |-> CsvRows(json_load(processed_files[product_id]))]
    /\ UNCHANGED <<settings, raw_files, processed_files, uuid_count, served>>

\* lines 125-139; pid is payload.get("product_id")
assistant_qa(pid, question, reply) ==
    /\ request' = [op |-> "assistant_qa", product_id |-> PyStr(pid), question |-> question, reply |-> reply]
    /\ response' = IF ~Truthy(pid) \/ PyStr(pid) \notin DOMAIN processed_files
                   THEN NotFound("Product not found")
                   ELSE [status |-> "200",
                         body |-> qa_on_dpp(json_load(processed_files[PyStr(pid)]), question, reply)]
    /\ UNCHANGED <<settings, raw_files, processed_files, uuid_count, served>>

\* lines 80-90
list_products ==
    /\ request' = [op |-> "list_products"]
    /\ response' = [status |-> "200",
                    body |-> {[product_id |-> json_load(processed_files[k])["product_id"],
                               product_name |-> json_load(processed_files[k])["product_name"]] :
                              k \in DOMAIN processed_files}]
    /\ UNCHANGED <<settings, raw_files, processed_files, uuid_count, served>>

\* the two configurations the server is run in
ServerSettings == {c \in SettingsChoices : c.OpenAI /\ (c.AI_BACKEND = "openai" <=> c.OPENAI_API_KEY # "")}

\* The server after start-up, with both data directories empty.
Init ==
    /\ settings \in ServerSettings
    /\ raw_files = EmptyFiles
    /\ processed_files = EmptyFiles
    /\ uuid_count = 0
    /\ request = [op |-> "start"]
    /\ response = Pending
    /\ served = EmptyFiles

ProcessProduct == \E body \in ApiBodies : \E reply \in RepliesIn(ApiReplies) : process_product(body, reply)
GetDpp == \E product_id \in LookupIds : get_dpp(product_id)
ComplianceReport == \E product_id \in LookupIds : compliance_report(product_id)
ExportCsv == \E product_id \in LookupIds : export_csv(product_id)
AssistantQa ==
    \E pid \in {PyNone, Str("")} \cup {Str(x) : x \in LookupIds} :
        \E question \in ApiQuestions : \E reply \in RepliesIn({ReplyRaise, ReplyContent(<<TokText(" It is cotton. ")>>)}) :
            assistant_qa(pid, question, reply)
ListProducts == list_products

Next == ProcessProduct \/ GetDpp \/ ComplianceReport \/ ExportCsv \/ AssistantQa \/ ListProducts

Spec == Init /\ [][Next]_vars


----------------------------------------------------------------------------
(* Calls of one function: the call is in request, its result in response   *)

\* nothing stored, no uuid drawn, the call not yet made
IdleServer ==
    /\ raw_files = EmptyFiles
    /\ processed_files = EmptyFiles
    /\ uuid_count = 0
    /\ response = Pending
    /\ served = EmptyFiles

\* the settings of config.py without any environment variable
MockSettings == [AI_BACKEND |-> "mock", OPENAI_API_KEY |-> "", OpenAI |-> TRUE]

(* check_espr_compliance                                                   *)

\* DPP dicts as GET .../compliance-report reads them from a file, and partial ones
ComplianceDpps ==
    { json_load(Field("product_id", Str("p1")) \o Field("materials_composition", a)
             \o Field("recycling_instructions", b) \o Field("recycled_content_percentage", c)
             \o Field("co2_footprint_kg", d) \o Field("repair_score", e)) :
        a \in {Absent, StrList(<<>>), PyNone, MatList(TwoMaterials)},
        b \in {Absent, Str(""), PyNone, Str("Return to store")},
        c \in {Absent, Num(0), Num(25 * Hundredths)},
        d \in {Absent, Num(0), Num(240)},
        e \in {Absent, PyNone, Str(""), Str("N/A"), Str("7/10")} }

InitCompliance ==
    /\ IdleServer
    /\ settings = MockSettings
    /\ request \in {[op |-> "check_espr_compliance", dpp |-> d] : d \in ComplianceDpps}

CheckEsprCompliance ==
    /\ request.op = "check_espr_compliance"
    /\ response = Pending
    /\ response' = [status |-> "returned", report |-> check_espr_compliance(request.dpp)]
    /\ UNCHANGED <<settings, raw_files, processed_files, uuid_count, request, served>>

SpecCompliance == InitCompliance /\ [][CheckEsprCompliance]_vars

\* a value that is absent, null or empty
IsEmpty(v) == v \in {Absent, PyNone, Str(""), StrList(<<>>)}
\* a number that is absent or zero
IsUnset(v) == v \in {Absent, Num(0)}

MaterialsEmpty(dpp) == IsEmpty(Get(dpp, "materials_composition", Absent))
InstructionsEmpty(dpp) == IsEmpty(Get(dpp, "recycling_instructions", Absent))
AnyIssue(dpp) == MaterialsEmpty(dpp) \/ InstructionsEmpty(dpp)
AnyWarning(dpp) ==
    \/ IsUnset(Get(dpp, "recycled_content_percentage", Absent))
    \/ IsUnset(Get(dpp, "co2_footprint_kg", Absent))
    \/ Get(dpp, "repair_score", Absent) \in {Absent, PyNone, Str(""), Str("N/A")}

ComplianceReturned == request.op = "check_espr_compliance" /\ response.status = "returned"

\* C1: the status check_espr_compliance returns is "non_compliant" exactly when an
\* issue predicate holds (materials or recycling instructions absent, null or
\* empty), otherwise "partially_compliant" exactly when a warning predicate holds
\* (recycled content or CO2 absent or zero, repair score "N/A", empty, null or
\* absent), otherwise "compliant"; with both materials and instructions empty it
\* is "non_compliant" with exactly two issues.
C1_StatusFromPredicates ==
    ComplianceReturned =>
        /\ response.report.status =
               (IF AnyIssue(request.dpp) THEN "non_compliant"
                ELSE IF AnyWarning(request.dpp) THEN "partially_compliant"
                ELSE "compliant")
        /\ (MaterialsEmpty(request.dpp) /\ InstructionsEmpty(request.dpp))
               => (response.report.status = "non_compliant" /\ Len(response.report.issues) = 2)

\* C1's scenario: a report on a DPP with empty materials and empty instructions
C1_Witness ==
    /\ ComplianceReturned
    /\ Get(request.dpp, "materials_composition", Absent) = StrList(<<>>)
    /\ Get(request.dpp, "recycling_instructions", Absent) = Str("")
    /\ response.report.status = "non_compliant"


(* standardize_product_data                                                *)

InitStandardize ==
    /\ IdleServer
    /\ settings \in SettingsChoices
    /\ request \in {[op |-> "standardize_product_data", raw |-> json_load(b), reply |-> r] :
                        b \in StandardizeBodies, r \in RepliesIn(StandardizeReplies)}

\* what the caller of standardize_product_data sees: the record, or the exception
Outcome(std) ==
    [status |-> IF std.raised THEN "raised" ELSE "returned", dpp |-> std.dpp, path |-> std.path]

StandardizeProductData ==
    /\ request.op = "standardize_product_data"
    /\ response = Pending
    /\ \E std \in {standardize_product_data(request.raw, request.reply, Uuid(uuid_count + 1))} :
          /\ response' = Outcome(std)
          /\ uuid_count' = uuid_count + (IF std.drew THEN 1 ELSE 0)
    /\ UNCHANGED <<settings, raw_files, processed_files, request, served>>

SpecStandardize == InitStandardize /\ [][StandardizeProductData]_vars

StandardizeDone == request.op = "standardize_product_data" /\ response # Pending
StandardizeReturned == StandardizeDone /\ response.status = "returned"

NoDuplicates(xs) == \A i, j \in 1..Len(xs) : i # j => xs[i] # xs[j]
SortedAscending(xs) == \A i \in 1..(Len(xs) - 1) : xs[i] = xs[i + 1] \/ StrLess(xs[i], xs[i + 1])
InPercentRange(x) == 0 <= x /\ x <= 100 * Hundredths

\* C2: every DPP standardize_product_data returns, on either path, has every
\* material percentage and the recycled content in [0,100], at most 10 materials,
\* and references without duplicates, sorted ascending and at most 5.
C2_DppInvariants ==
    StandardizeReturned =>
        /\ \A i \in 1..Len(response.dpp.materials_composition) :
               InPercentRange(response.dpp.materials_composition[i].percentage)
        /\ InPercentRange(response.dpp.recycled_content_percentage)
        /\ Len(response.dpp.materials_composition) <= 10
        /\ NoDuplicates(response.dpp.espr_article_references)
        /\ SortedAscending(response.dpp.espr_article_references)
        /\ Len(response.dpp.espr_article_references) <= 5

StrategyEnabled == settings.AI_BACKEND = "openai"

\* C3: with the external strategy enabled and its call failing (it raises, gives
\* no content, or gives content that holds no parseable JSON object),
\* standardize_product_data gives exactly what the rule-based path gives for the
\* same raw input: the same record with no externally supplied field, or the same
\* validation error, and no error of the strategy.
C3_FallbackIsRuleBased ==
    (StandardizeDone /\ StrategyEnabled /\ request.reply \in FailedReplies) =>
        response = Outcome(Validated(RuleBasedData(request.raw, Uuid(1)), "rule", DrawsUuid(request.raw)))

\* C3's case: the strategy is usable, answers with text that holds members of an
\* object but does not parse, and a record comes back
C3_Witness ==
    /\ StandardizeReturned
    /\ StrategyEnabled /\ StrategyAvailable
    /\ request.reply \in FailedReplies \ {ReplyRaise, ReplyNone}
    /\ \E i \in 1..Len(request.reply.content) : request.reply.content[i].tok = "member"
    /\ response.path = "rule"

HasMaterial(mats, name) == \E i \in 1..Len(mats) : mats[i].name = name

\* C4: rule-based standardization of the textile input (the description with
\* "Cotton 60%, Polyester 40%. Recycled content ~ 25%. CO2 ~ 2.4 kg CO2e." and the
\* notes "Repair score 7/10") gives materials that include Cotton and Polyester
\* and sum to 100, recycled content 25.0 and CO2 footprint 2.4.
C4_TextileScenario ==
    (/\ StandardizeReturned
     /\ response.path = "rule"
     /\ Get(request.raw, "description", Absent) = Str(TextileDescription)
     /\ Get(request.raw, "notes", Absent) = Str(TextileNotes)
     /\ \A k \in {"bom_text", "specs", "details"} : k \notin DOMAIN request.raw) =>
        /\ HasMaterial(response.dpp.materials_composition, "Cotton")
        /\ HasMaterial(response.dpp.materials_composition, "Polyester")
        /\ SumPct(response.dpp.materials_composition) = 100 * Hundredths
        /\ response.dpp.recycled_content_percentage = 25 * Hundredths
        /\ response.dpp.co2_footprint_kg = 240

NoFreeText(raw) == \A i \in 1..Len(FreeTextKeys) : FreeTextKeys[i] \notin DOMAIN raw

\* the rule-based path returned a record for a raw input without any free-text field
EmptyProductReturned == StandardizeReturned /\ response.path = "rule" /\ NoFreeText(request.raw)

\* C5 as stated: without any free-text field the record has no materials, recycled
\* content 0, CO2 footprint 0 and the two-entry default references.
C5_TwoEntryDefault ==
    EmptyProductReturned =>
        /\ response.dpp.materials_composition = <<>>
        /\ response.dpp.recycled_content_percentage = 0
        /\ response.dpp.co2_footprint_kg = 0
        /\ response.dpp.espr_article_references = DefaultReferences

\* C5: rule-based standardization of a raw input without any free-text field gives
\* a record with no materials, recycled content 0, CO2 footprint 0 and, the corpus
\* being the three built-in snippets, the references of the probe string: all
\* three article ids.
C5_EmptyProduct ==
    EmptyProductReturned =>
        /\ response.dpp.materials_composition = <<>>
        /\ response.dpp.recycled_content_percentage = 0
        /\ response.dpp.co2_footprint_kg = 0
        /\ response.dpp.espr_article_references = <<"ESPR_Article_1", "ESPR_Article_2", "ESPR_Article_3">>

\* C5's case: such a record, from an input that names materials under a key that
\* is no free-text field
C5_Witness ==
    /\ EmptyProductReturned
    /\ "materials" \in DOMAIN request.raw
    /\ Len(response.dpp.espr_article_references) = 3

Present(raw, k) == k \in DOMAIN raw
\* the first of the keys the raw input has, else the default
FirstPresent(raw, k1, k2, default) ==
    IF Present(raw, k1) THEN raw[k1] ELSE IF Present(raw, k2) THEN raw[k2] ELSE default

\* C10: on the rule-based path the record has the raw product_id when present and
\* a fresh identifier when absent, product_name from product_name, else name, else
\* "Unknown Product", manufacturer from manufacturer, else brand, else "Unknown
\* Manufacturer", repair_score the string form of the raw one when present and
\* "N/A" when absent, supply_chain_partners from supply_chain_partners, else
\* suppliers, else empty, and compliance_status "unknown".
C10_FieldDefaults ==
    (StandardizeReturned /\ response.path = "rule") =>
        /\ Str(response.dpp.product_id) = FirstPresent(request.raw, "product_id", "product_id", Str(Uuid(1)))
        /\ Str(response.dpp.product_name) =
               FirstPresent(request.raw, "product_name", "name", Str("Unknown Product"))
        /\ Str(response.dpp.manufacturer) =
               FirstPresent(request.raw, "manufacturer", "brand", Str("Unknown Manufacturer"))
        /\ response.dpp.repair_score =
               PyStr(FirstPresent(request.raw, "repair_score", "repair_score", Str("N/A")))
        /\ StrList(response.dpp.supply_chain_partners) =
               FirstPresent(request.raw, "supply_chain_partners", "suppliers", StrList(<<>>))
        /\ response.dpp.compliance_status = "unknown"


(* _extract_materials                                                      *)

\* how many pattern matches a text holds at most
MaxMatches == 12

\* percentages that texts repeat
SharePcts == {0, 5, 8, 9, 10, 14, 16, 20, 25, 33, 50, 100}

\* lists of percentages: n times the same one, and some mixed ones
PctLists ==
    {[i \in 1..n |-> p] : n \in 1..MaxMatches, p \in SharePcts}
        \cup {<<60, 40>>, <<40, 30, 30>>, <<96, 3>>, <<50, 30, 1>>, <<100, 100>>, <<70, 20, 20, 10>>}

RECURSIVE TextOf(_, _)
\* a text with one match for each percentage from the i-th on: "A 14%, B 14%, ..."
TextOf(pcts, i) ==
    IF i > Len(pcts) THEN ""
    ELSE Ch(UpperLetters, i) \o " " \o NatStr(pcts[i]) \o "%" \o (IF i < Len(pcts) THEN ", " ELSE "")
            \o TextOf(pcts, i + 1)

InitMaterials ==
    /\ IdleServer
    /\ settings = MockSettings
    /\ request \in {[op |-> "_extract_materials", pcts |-> ps, text |-> TextOf(ps, 1)] : ps \in PctLists}

ExtractMaterials ==
    /\ request.op = "_extract_materials"
    /\ response = Pending
    /\ response' = [status |-> "returned", materials |-> _extract_materials(request.text)]
    /\ UNCHANGED <<settings, raw_files, processed_files, uuid_count, request, served>>

SpecMaterials == InitMaterials /\ [][ExtractMaterials]_vars

RECURSIVE SumOf(_)
SumOf(xs) == IF xs = <<>> THEN 0 ELSE Head(xs) + SumOf(Tail(xs))

\* C6: of the materials _extract_materials returns for matched percentages in
\* 0..100, every percentage lies in [0,100], and when the matched percentages sum
\* to a value in [80,120] the returned ones sum to 100 within 0.01.
C6_NormalizedSum ==
    (request.op = "_extract_materials" /\ response.status = "returned") =>
        /\ \A i \in 1..Len(response.materials) : InPercentRange(response.materials[i].percentage)
        /\ (80 <= SumOf(request.pcts) /\ SumOf(request.pcts) <= 120) =>
               /\ SumPct(response.materials) >= 100 * Hundredths - 1
               /\ SumPct(response.materials) <= 100 * Hundredths + 1

(* summarize_insights                                                      *)

InsightDpps ==
    { json_load(Field("product_name", Str("Eco Tee")) \o Field("recycled_content_percentage", a)
             \o Field("co2_footprint_kg", b) \o Field("recycling_instructions", c)
             \o Field("repair_score", d) \o Field("materials_composition", e)) :
        a \in {Absent, PyNone, Num(0), Num(15 * Hundredths), Num(1999), Num(20 * Hundredths), Num(25 * Hundredths)},
        b \in {Absent, Num(0), Num(240)},
        c \in {Absent, PyNone, Str(""), Str("Return to store")},
        d \in {Absent, PyNone, Str(""), Str("N/A"), Str("7/10")},
        e \in {Absent, MatList(TwoMaterials)} }

InsightReplies ==
    { ReplyRaise,
      ReplyContent(<<TokText("Summary: fine. Score: 80")>>),
      ReplyContent(<<TokOpen, TokMember("summary", Str("Looks fine.")), TokClose>>),
      ReplyContent(<<TokOpen, TokMember("summary", Str("Looks fine.")), TokMember("score", Num(95 * Hundredths)),
                     TokClose>>) }

InitInsights ==
    /\ IdleServer
    /\ settings \in SettingsChoices
    /\ request \in {[op |-> "summarize_insights", dpp |-> d, reply |-> r] :
                        d \in InsightDpps, r \in RepliesIn(InsightReplies)}

SummarizeInsights ==
    /\ request.op = "summarize_insights"
    /\ response = Pending
    /\ \E out \in {summarize_insights(request.dpp, request.reply)} :
          response' = [status |-> IF out.raised THEN "raised" ELSE "returned",
                       path |-> out.path, summary |-> out.summary, score |-> out.score]
    /\ UNCHANGED <<settings, raw_files, processed_files, uuid_count, request, served>>

SpecInsights == InitInsights /\ [][SummarizeInsights]_vars

RuleInsightsReturned ==
    request.op = "summarize_insights" /\ response.status = "returned" /\ response.path = "rule"

\* the three penalties, a missing number counting as 0
LowRecycled(dpp) == Get(dpp, "recycled_content_percentage", Num(0)).n < 20 * Hundredths
NoCo2(dpp) == Get(dpp, "co2_footprint_kg", Num(0)) = Num(0)
NoInstructions(dpp) == IsEmpty(Get(dpp, "recycling_instructions", Absent))
Penalties(dpp) ==
    (IF LowRecycled(dpp) THEN 1 ELSE 0) + (IF NoCo2(dpp) THEN 1 ELSE 0)
        + (IF NoInstructions(dpp) THEN 1 ELSE 0)

\* C7: on the rule-based path the score is 70 minus 10 for each of the three
\* penalties that holds (recycled content below 20, CO2 footprint 0, recycling
\* instructions missing or empty), so one of 40, 50, 60, 70; with recycled 0, CO2 0
\* and empty instructions it is 40; a missing repair score adds a recommendation
\* and has no part in the score.
C7_ScoreFromPenalties ==
    RuleInsightsReturned =>
        /\ response.score = Num((70 - 10 * Penalties(request.dpp)) * Hundredths)
        /\ response.score.n \in {40 * Hundredths, 50 * Hundredths, 60 * Hundredths, 70 * Hundredths}
        /\ (/\ Get(request.dpp, "recycled_content_percentage", Absent) = Num(0)
            /\ Get(request.dpp, "co2_footprint_kg", Absent) = Num(0)
            /\ Get(request.dpp, "recycling_instructions", Absent) = Str(""))
               => response.score = Num(40 * Hundredths)
        /\ Get(request.dpp, "repair_score", Absent) \in {Absent, PyNone, Str(""), Str("N/A")}
               <=> Contains(response.summary, "Repair score missing")

\* C7's case: the passport scores 70 on the rule-based path while its repair
\* score is missing and recommended
C7_Witness ==
    /\ RuleInsightsReturned
    /\ "repair_score" \notin DOMAIN request.dpp
    /\ response.score = Num(70 * Hundredths)
    /\ Contains(response.summary, "Repair score missing")

(* qa_on_dpp                                                               *)

QaDpps ==
    { json_load(Field("product_id", Str("p1")) \o Field("materials_composition", a)
             \o Field("recycled_content_percentage", b) \o Field("co2_footprint_kg", c)
             \o Field("recycling_instructions", d)) :
        a \in {Absent, StrList(<<>>), MatList(TwoMaterials)},
        b \in {Absent, Num(25 * Hundredths)},
        c \in {Absent, Num(240)},
        d \in {Absent, Str("Return to store")} }

Questions ==
    { "", "Who made it?", "How do I recycle this?", "RECYCLE", "Is it Recycled?",
      "How much recycled content?", "What is the CO2 footprint?", "carbon Footprint",
      "Which materials?", "Composition", "CO2 of the materials?", "composition and footprint",
      "Is the footprint of recycling high?", "material", "re cycled co 2" }

QaReplies == {ReplyRaise, ReplyNone, ReplyContent(<<TokText(" It is cotton. ")>>)}

InitQa ==
    /\ IdleServer
    /\ settings \in SettingsChoices
    /\ request \in {[op |-> "qa_on_dpp", dpp |-> d, question |-> q, reply |-> r] :
                        d \in QaDpps, q \in Questions, r \in RepliesIn(QaReplies)}

QaOnDpp ==
    /\ request.op = "qa_on_dpp"
    /\ response = Pending
    /\ \E out \in {qa_on_dpp(request.dpp, request.question, request.reply)} :
          response' = [status |-> "returned", path |-> out.path, answer |-> out.answer]
    /\ UNCHANGED <<settings, raw_files, processed_files, uuid_count, request, served>>

SpecQa == InitQa /\ [][QaOnDpp]_vars

\* the keyword classes in their priority order
KeywordClasses == << {"recycle"}, {"co2", "footprint"}, {"materials", "composition"}, {"recycled"} >>

ClassMatches(c, question) == \E kw \in KeywordClasses[c] : Contains(lower(question), kw)

\* the first class with a keyword in the lower-cased question, 5 when there is none
FirstClass(question) ==
    IF \E c \in 1..Len(KeywordClasses) : ClassMatches(c, question)
    THEN CHOOSE c \in 1..Len(KeywordClasses) :
            ClassMatches(c, question) /\ \A b \in 1..(c - 1) : ~ClassMatches(b, question)
    ELSE 5

RuleAnswered == request.op = "qa_on_dpp" /\ response.status = "returned" /\ response.path = "rule"

\* C8: on the rule-based path qa_on_dpp returns the answer of exactly one branch:
\* that of the first keyword class, in the order ("recycle"), ("co2",
\* "footprint"), ("materials", "composition"), ("recycled"), with a keyword in the
\* lower-cased question, and the deflection exactly when no class matches.
C8_FirstMatchingClass ==
    RuleAnswered =>
        /\ response.answer = ClassAnswer(request.dpp, FirstClass(request.question))
        /\ response.answer = DeflectionAnswer <=> FirstClass(request.question) = 5
        /\ \A c \in 1..5 : c # FirstClass(request.question) => response.answer # ClassAnswer(request.dpp, c)

\* C8's case: a question with keywords of two classes gets the answer of the
\* earlier one
C8_Witness ==
    /\ RuleAnswered
    /\ ClassMatches(2, request.question) /\ ClassMatches(3, request.question)
    /\ response.answer = ClassAnswer(request.dpp, 2)


(* The request handlers                                                    *)

LookupOps == {"get_dpp", "compliance_report", "export_csv", "assistant_qa"}

\* C9: a lookup by product id (get_dpp, compliance_report, export_csv,
\* assistant_qa) succeeds exactly when an earlier process_product succeeded and
\* returned that id, get_dpp then returns the DPP of the latest such response, and
\* a lookup that does not succeed is answered with not-found.
C9_LookupIffProcessed ==
    request.op \in LookupOps =>
        /\ response.status = "200" <=> request.product_id \in DOMAIN served
        /\ response.status # "200" => response.status = "404"
        /\ (request.op = "get_dpp" /\ response.status = "200")
               => response.body = served[request.product_id]


\* C11: every product id with a stored processed DPP also has a stored raw input
\* under the same id, and after a successful process_product the raw input stored
\* under the returned id is the body that request sent.
C11_RawForEveryDpp ==
    /\ DOMAIN processed_files \subseteq DOMAIN raw_files
    /\ (request.op = "process_product" /\ response.status = "200") =>
           /\ response.product_id \in DOMAIN raw_files
           /\ raw_files[response.product_id] = json_dump(json_load(request.body), KeysOf(request.body))


(* qa_on_dpp: which answers can be had                                     *)

\* some question gets the answer of class c for the DPP
ClassReachable(dpp, c) == \E q \in Questions : RuleAnswer(dpp, q) = ClassAnswer(dpp, c)

\* C12: each of the four keyword classes of the rule-based router is reachable:
\* for the recycling-guidance, the CO2, the materials and the recycled-content
\* answer there is a question that gets it, so some question containing
\* "recycled" is answered with the recycled-content percentage.
C12_EveryClassReachable ==
    RuleAnswered =>
        /\ \A c \in 1..4 : ClassReachable(request.dpp, c)
        /\ \E q \in Questions :
               Contains(lower(q), "recycled") /\ RuleAnswer(request.dpp, q) = ClassAnswer(request.dpp, 4)

====
